---- MODULE Spec2Model ----
(***************************************************************************)
(* Window registry of the desktop shell (src/main/services/WindowService). *)
(* The host process is single-threaded: every public method and every      *)
(* event callback runs to completion, so each is one atomic action.        *)
(***************************************************************************)
EXTENDS Integers, Sequences, FiniteSets, TLC

(* ---------------------------------------------------------------- bounds *)
MaxWin == 2
MaxHandlers == 2
MaxShakes == MaxHandlers
MaxCrashes == 2
MaxBigTicks == 2
MaxRequests == 2
MaxNetRequests == 2
Epoch == 100000

(* ------------------------------------------------------ program constants *)
CrashWindow == 60 * 1000
CloseTimeout == 800

SmallStep == CloseTimeout \div 2
BigStep == CrashWindow

MAIN == "main"
BROWSER == "browser"
Names == {MAIN, BROWSER}
\* `${WINDOW_NAME.SNIFFER}-${uuid}` for the uuids in use
SnifferNames == {"sniffer-1"}
\* the key a JavaScript Map gets when the name handed to set() is null
NullKey == "<null>"
Handles == 1..MaxWin
\* a null BrowserWindow reference
NoWin == 0
Platforms == {"win32", "darwin", "linux"}

VARIABLES
  platform,    \* process.platform, fixed for the run
  now,         \* Date.now() / the timer clock, in ms
  wins,        \* native BrowserWindow objects by handle
  winPool,     \* the registry Map, in insertion order
  shakes,      \* safeClose handshakes whose timer or listener is still live
  sentDestroy, \* a WINDOW_DESTROY message has been sent to some renderer
  immediates,  \* windows with a pending setImmediate re-show (Linux)
  appHidden,   \* app.hide() is in effect (macOS)
  isQuitting,  \* app.isQuitting
  quitCalls,   \* app.quit() calls made by closed handlers
  exitCalls,   \* app.exit(1) calls made by crash handlers
  crashes,     \* renderer crashes so far
  crashAt,     \* per window: time of its latest renderer crash, -1 if none
  closeReqAt,  \* per live window: time its first handshake started, -1 if none
  destroys,    \* per window: native destroy() calls made on it
  destroyedLate,\* per window: it was destroyed more than 800 ms after closeReqAt
  host,        \* what the navigation guard and reloadWindow did and still owe
  lastCreate,  \* per name: handle the latest create returned, NoWin after any close
  lastCall     \* the operation or event that produced this state

vars == <<platform, now, wins, winPool, shakes, sentDestroy, immediates, appHidden,
          isQuitting, quitCalls, exitCalls, crashes, crashAt, closeReqAt, destroys,
          destroyedLate, host, lastCreate, lastCall>>

(* -------------------------------------------------------- native windows *)
NoneWin == [st |-> "none", name |-> "", visible |-> FALSE, minimized |-> FALSE,
            focused |-> FALSE, muted |-> FALSE, opaque |-> TRUE, fullscreen |-> FALSE,
            closing |-> FALSE, closeHandlers |-> 0, navHandlers |-> 0,
            readyPending |-> FALSE, allWorkspaces |-> FALSE, ctxHandlers |-> 0,
            devTools |-> FALSE]

\* new BrowserWindow({ show: false, ... })
FreshWin(name) == [NoneWin EXCEPT !.st = "live", !.name = name]

DeadWin(name) == [NoneWin EXCEPT !.st = "destroyed", !.name = name]

Constructed(ws, w) == w \in Handles /\ ws[w].st # "none"
IsDestroyed(ws, w) == ws[w].st = "destroyed"
IsLive(ws, w) == w \in Handles /\ ws[w].st = "live"

\* BrowserWindow.isVisible(): a minimized window does not count as visible
IsVisible(ws, w) == ws[w].visible /\ ~ws[w].minimized
IsMinimized(ws, w) == ws[w].minimized
IsFocused(ws, w) == ws[w].focused
IsFullScreen(ws, w) == ws[w].fullscreen

NFocus(ws, w) == [x \in Handles |-> [ws[x] EXCEPT !.focused = (x = w)]]
NShow(ws, w) == NFocus([ws EXCEPT ![w].visible = TRUE, ![w].minimized = FALSE], w)
NHide(ws, w) == [ws EXCEPT ![w].visible = FALSE, ![w].focused = FALSE]
NMinimize(ws, w) == [ws EXCEPT ![w].minimized = TRUE, ![w].focused = FALSE]
NRestore(ws, w) == [ws EXCEPT ![w].minimized = FALSE]

(* ------------------------------------------------------------ the registry *)
PoolIndex(p, k) ==
  IF \E i \in 1..Len(p) : p[i].name = k
  THEN CHOOSE i \in 1..Len(p) : p[i].name = k
  ELSE 0

PoolHas(p, k) == PoolIndex(p, k) # 0

\* Map.set keeps the position of an existing key and appends a new one
PoolSet(p, k, w, t) ==
  LET e == [name |-> k, window |-> w, lastCrashTime |-> t]
  IN IF PoolHas(p, k) THEN [p EXCEPT ![PoolIndex(p, k)] = e] ELSE Append(p, e)

PoolDelete(p, k) == SelectSeq(p, LAMBDA e : e.name # k)

getAllNames(p) == [i \in 1..Len(p) |-> p[i].name]

getAllWindows(p) == [i \in 1..Len(p) |-> p[i].window]

\* getWindowName answering with the first key of the registry on any match
getWindowNameFirstKey(p, w) ==
  IF \E i \in 1..Len(p) : p[i].window = w THEN p[1].name ELSE NullKey

getWindowName(p, w) ==
  IF \E i \in 1..Len(p) : p[i].window = w
  THEN p[CHOOSE i \in 1..Len(p) :
           p[i].window = w /\ \A j \in 1..(i - 1) : p[j].window # w].name
  ELSE NullKey

\* identifiers are [kind |-> "name", name |-> n] or [kind |-> "handle", win |-> w]
ByName(n) == [kind |-> "name", name |-> n, win |-> NoWin]
ByHandle(w) == [kind |-> "handle", name |-> "", win |-> w]

\* getWindow falling back to the first registered window when the name is absent
getWindowOrFirst(p, id) ==
  IF id.kind = "name"
  THEN IF PoolHas(p, id.name) THEN p[PoolIndex(p, id.name)].window
       ELSE IF p # <<>> THEN p[1].window ELSE NoWin
  ELSE id.win

getWindow(p, id) ==
  IF id.kind = "name"
  THEN IF PoolHas(p, id.name) THEN p[PoolIndex(p, id.name)].window ELSE NoWin
  ELSE id.win

(* ------------------------------------------------------- host side effects *)
\* reloads: windows reloadWindow has reloaded; openPaths: shell.openPath calls;
\* openExternals: shell.openExternal calls; sends: BROWSER_NAVIGATE messages;
\* loads: once('did-finish-load') listeners waiting; navTimers: 1000 ms timers
\* running; requests: open-window and will-navigate events handled so far;
\* hooked: the session has webRequest listeners; reqMap: the map those listeners
\* share; net: how far each network request has come, and the URL it asks for
ReqIds == 1..MaxNetRequests

NoHost == [reloads |-> {}, openPaths |-> <<>>, openExternals |-> <<>>, sends |-> <<>>,
           loads |-> {}, navTimers |-> {}, requests |-> 0,
           hooked |-> FALSE, reqMap |-> {},
           net |-> [id \in ReqIds |-> [stage |-> "none", url |-> <<>>]]]

(* ------------------------------------------------- the state handlers touch *)
\* the part of the state a handler may change, threaded through its statements;
\* log: the native calls showWindow and hideWindow have made so far, in order
World == [wins |-> wins, pool |-> winPool, shakes |-> shakes, sent |-> sentDestroy,
          imm |-> immediates, appHidden |-> appHidden, quits |-> quitCalls, reqAt |-> closeReqAt,
          destroys |-> destroys, late |-> destroyedLate, host |-> host, log |-> <<>>]

Commit(S) ==
  /\ wins' = S.wins
  /\ winPool' = S.pool
  /\ shakes' = SelectSeq(S.shakes, LAMBDA h : h.timer \/ h.listener)
  /\ sentDestroy' = S.sent
  /\ immediates' = S.imm
  /\ appHidden' = S.appHidden
  /\ quitCalls' = S.quits
  /\ closeReqAt' = S.reqAt
  /\ destroys' = S.destroys
  /\ destroyedLate' = S.late
  /\ host' = S.host

(* ------------------------------------------------------- show, hide, toggle *)
\* one native call on window w, with its effect
Call(S, w, c) ==
  LET T == [S EXCEPT !.log = Append(@, c)]
  IN CASE c = "restore" -> [T EXCEPT !.wins = NRestore(@, w)]
       [] c = "setOpacity(1)" -> [T EXCEPT !.wins[w].opaque = TRUE]
       [] c = "setOpacity(0)" -> [T EXCEPT !.wins[w].opaque = FALSE]
       [] c = "hide" -> [T EXCEPT !.wins = NHide(@, w)]
       [] c = "minimize" -> [T EXCEPT !.wins = NMinimize(@, w)]
       [] c = "app.hide" -> [T EXCEPT !.appHidden = TRUE]
       [] c = "setImmediate" -> [T EXCEPT !.imm = @ \cup {w}]
       [] c = "setVisibleOnAllWorkspaces(true)" -> [T EXCEPT !.wins[w].allWorkspaces = TRUE]
       [] c = "setVisibleOnAllWorkspaces(false)" -> [T EXCEPT !.wins[w].allWorkspaces = FALSE]
       [] c = "setFullScreen(false)" -> [T EXCEPT !.wins[w].fullscreen = FALSE]
       [] c = "setAudioMuted(false)" -> [T EXCEPT !.wins[w].muted = FALSE]
       [] c = "setAudioMuted(true)" -> [T EXCEPT !.wins[w].muted = TRUE]
       [] c = "show" -> [T EXCEPT !.wins = NShow(@, w), !.appHidden = FALSE]
       [] c = "focus" -> [T EXCEPT !.wins = NFocus(@, w)]

RECURSIVE Calls(_, _, _)
Calls(S, w, cs) == IF cs = <<>> THEN S ELSE Calls(Call(S, w, Head(cs)), w, Tail(cs))

\* showWindow without the second setVisibleOnAllWorkspaces call
showWindowPinned(S, id) ==
  LET w == getWindow(S.pool, id)
  IN IF w = NoWin \/ IsDestroyed(S.wins, w) THEN S
     ELSE LET a == IF IsMinimized(S.wins, w) THEN Call(S, w, "restore") ELSE S
              b == IF platform = "win32" THEN Call(a, w, "setOpacity(1)") ELSE a
          IN IF platform = "linux" /\ IsVisible(b.wins, w) /\ ~IsFocused(b.wins, w)
             THEN Calls(b, w, <<"hide", "setImmediate">>)
             ELSE LET c == IF platform # "linux"
                           THEN Call(b, w, "setVisibleOnAllWorkspaces(true)") ELSE b
                      d == IF IsFullScreen(c.wins, w) /\ ~IsVisible(c.wins, w)
                           THEN Call(c, w, "setFullScreen(false)") ELSE c
                  IN Calls(d, w, <<"setAudioMuted(false)", "show", "focus">>)

\* showWindow without the Linux branch
showWindowNoDefer(S, id) ==
  LET w == getWindow(S.pool, id)
  IN IF w = NoWin \/ IsDestroyed(S.wins, w) THEN S
     ELSE LET a == IF IsMinimized(S.wins, w) THEN Call(S, w, "restore") ELSE S
              b == IF platform = "win32" THEN Call(a, w, "setOpacity(1)") ELSE a
              c == IF platform # "linux"
                   THEN Call(b, w, "setVisibleOnAllWorkspaces(true)") ELSE b
              d == IF IsFullScreen(c.wins, w) /\ ~IsVisible(c.wins, w)
                   THEN Call(c, w, "setFullScreen(false)") ELSE c
              e == Calls(d, w, <<"setAudioMuted(false)", "show", "focus">>)
          IN IF platform # "linux"
             THEN Call(e, w, "setVisibleOnAllWorkspaces(false)") ELSE e

showWindow(S, id) ==
  LET w == getWindow(S.pool, id)
  IN IF w = NoWin \/ IsDestroyed(S.wins, w) THEN S
     ELSE LET a == IF IsMinimized(S.wins, w) THEN Call(S, w, "restore") ELSE S
              b == IF platform = "win32" THEN Call(a, w, "setOpacity(1)") ELSE a
          IN IF platform = "linux" /\ IsVisible(b.wins, w) /\ ~IsFocused(b.wins, w)
             THEN Calls(b, w, <<"hide", "setImmediate">>)
             ELSE LET c == IF platform # "linux"
                           THEN Call(b, w, "setVisibleOnAllWorkspaces(true)") ELSE b
                      d == IF IsFullScreen(c.wins, w) /\ ~IsVisible(c.wins, w)
                           THEN Call(c, w, "setFullScreen(false)") ELSE c
                      e == Calls(d, w, <<"setAudioMuted(false)", "show", "focus">>)
                  IN IF platform # "linux"
                     THEN Call(e, w, "setVisibleOnAllWorkspaces(false)") ELSE e

\* hideWindow that silences the window after it has hidden it
hideWindowMuteLast(S, id) ==
  LET w == getWindow(S.pool, id)
  IN IF w = NoWin \/ IsDestroyed(S.wins, w) THEN S
     ELSE LET a == IF platform = "win32" THEN Calls(S, w, <<"setOpacity(0)", "minimize">>)
                   ELSE IF platform = "darwin" THEN Calls(S, w, <<"hide", "app.hide">>)
                   ELSE Call(S, w, "hide")
          IN Call(a, w, "setAudioMuted(true)")

hideWindow(S, id) ==
  LET w == getWindow(S.pool, id)
  IN IF w = NoWin \/ IsDestroyed(S.wins, w) THEN S
     ELSE LET a == Call(S, w, "setAudioMuted(true)")
          IN IF platform = "win32" THEN Calls(a, w, <<"setOpacity(0)", "minimize">>)
             ELSE IF platform = "darwin" THEN Calls(a, w, <<"hide", "app.hide">>)
             ELSE Call(a, w, "hide")

\* windows.some((win) => win.isVisible()): isVisible() on a destroyed window throws
RECURSIVE SomeVisible(_, _)
toggleWindow(S, id) ==
  LET mainWindow == getWindow(S.pool, id)
  IN IF mainWindow = NoWin \/ IsDestroyed(S.wins, mainWindow) THEN S
     ELSE IF IsVisible(S.wins, mainWindow)
          THEN hideWindow(S, ByHandle(mainWindow))
          ELSE showWindow(S, ByHandle(mainWindow))

\* reload() and reloadIgnoringCache() differ in the cache only
reloadWindow(S, id, force) ==
  LET mainWindow == getWindow(S.pool, id)
  IN IF mainWindow # NoWin /\ ~IsDestroyed(S.wins, mainWindow)
     THEN [S EXCEPT !.host.reloads = @ \cup {mainWindow}]
     ELSE S

SomeVisible(ws, list) ==
  IF list = <<>> THEN "false"
  ELSE IF IsDestroyed(ws, Head(list)) THEN "throw"
  ELSE IF IsVisible(ws, Head(list)) THEN "true"
  ELSE SomeVisible(ws, Tail(list))

RECURSIVE HideEach(_, _)
HideEach(S, list) ==
  IF list = <<>> THEN S ELSE HideEach(hideWindow(S, ByHandle(Head(list))), Tail(list))

RECURSIVE ShowEach(_, _)
ShowEach(S, list) ==
  IF list = <<>> THEN S ELSE ShowEach(showWindow(S, ByHandle(Head(list))), Tail(list))

toggleAllWindows(S) ==
  LET windows == getAllWindows(S.pool)
      isVisable == SomeVisible(S.wins, windows)
  IN IF isVisable = "throw" THEN S
     ELSE IF isVisable = "true" THEN HideEach(S, windows) ELSE ShowEach(S, windows)

(* ------------------------------------------------------ close and safeClose *)
\* the 'closed' listener without the app.isQuitting test
ClosedHandlerQuitsAlways(S, w) ==
  LET p == PoolDelete(S.pool, S.wins[w].name)
  IN [S EXCEPT !.pool = p,
               !.quits = IF Len(getAllWindows(p)) = 0 THEN @ + 1 ELSE @]

\* the 'closed' listener createWindow attaches, with windowName from its closure
ClosedHandler(S, w) ==
  LET p == PoolDelete(S.pool, S.wins[w].name)
  IN [S EXCEPT !.pool = p,
               !.quits = IF isQuitting /\ Len(getAllWindows(p)) = 0 THEN @ + 1 ELSE @]

\* the window is gone: by destroy(), or when an unprevented close() completes;
\* Electron then emits 'closed'
Gone(S, w) ==
  ClosedHandler([S EXCEPT !.wins[w] = DeadWin(S.wins[w].name),
                          !.late[w] = S.reqAt[w] # -1 /\ now - S.reqAt[w] > CloseTimeout,
                          !.reqAt[w] = -1], w)

NDestroy(S, w) == Gone([S EXCEPT !.destroys[w] = @ + 1], w)

safeClose(S, w) ==
  [S EXCEPT !.shakes = Append(@, [win |-> w, deadline |-> now + CloseTimeout,
                                  timer |-> TRUE, listener |-> TRUE]),
            !.sent = TRUE,
            !.reqAt[w] = IF @ = -1 THEN now ELSE @]

RECURSIVE CloseHandlers(_, _, _)
CloseHandlers(S, w, n) ==
  IF n = 0 THEN S ELSE CloseHandlers(safeClose(S, w), w, n - 1)

\* BrowserWindow.close(): every 'close' listener runs; the browser window's
\* listeners prevent the default and start a handshake each; with no listener
\* the window goes on to close and 'closed' follows later
NClose(S, w) ==
  IF S.wins[w].closeHandlers > 0
  THEN CloseHandlers(S, w, S.wins[w].closeHandlers)
  ELSE [S EXCEPT !.wins[w].closing = TRUE]

\* finish without ipcMain.removeListener
finishKeepListener(S, i) ==
  LET w == S.shakes[i].win
  IN IF ~IsDestroyed(S.wins, w) THEN NDestroy(S, w) ELSE S

\* finish without the isDestroyed() test
finishUnguarded(S, i) ==
  NDestroy([S EXCEPT !.shakes[i].listener = FALSE], S.shakes[i].win)

finish(S, i) ==
  LET w == S.shakes[i].win
      a == [S EXCEPT !.shakes[i].listener = FALSE]
  IN IF ~IsDestroyed(a.wins, w) THEN NDestroy(a, w) ELSE a

\* onAck without clearTimeout(timer)
onAckNoClear(S, i) == finish(S, i)

onAck(S, i) == finish([S EXCEPT !.shakes[i].timer = FALSE], i)

\* ipcMain emits WINDOW_DESTROY_RELAY to every listener registered at that moment
RECURSIVE EmitAck(_, _)
EmitAck(S, i) ==
  IF i > Len(S.shakes) THEN S
  ELSE EmitAck(IF S.shakes[i].listener THEN onAck(S, i) ELSE S, i + 1)

\* closeWindow without the try/catch: the exception of close() leaves the method
closeWindowUncaught(S, id, throws) ==
  LET mainWindow == getWindow(S.pool, id)
      mainWindowName == getWindowName(S.pool, mainWindow)
      live == mainWindow # NoWin /\ ~IsDestroyed(S.wins, mainWindow)
  IN IF live /\ throws THEN S
     ELSE LET a == IF live THEN NClose(S, mainWindow) ELSE S
          IN IF mainWindowName # NullKey
             THEN [a EXCEPT !.pool = PoolDelete(@, mainWindowName)]
             ELSE a

\* closeWindow that never deletes the entry
closeWindowKeepEntry(S, id, throws) ==
  LET mainWindow == getWindow(S.pool, id)
  IN IF mainWindow # NoWin /\ ~IsDestroyed(S.wins, mainWindow)
     THEN IF throws THEN NDestroy(S, mainWindow) ELSE NClose(S, mainWindow)
     ELSE S

\* throws: the native close() call raises (the close-race the catch is for)
closeWindow(S, id, throws) ==
  LET mainWindow == getWindow(S.pool, id)
      mainWindowName == getWindowName(S.pool, mainWindow)
      a == IF mainWindow # NoWin /\ ~IsDestroyed(S.wins, mainWindow)
           THEN IF throws THEN NDestroy(S, mainWindow) ELSE NClose(S, mainWindow)
           ELSE S
  IN IF mainWindowName # NullKey
     THEN [a EXCEPT !.pool = PoolDelete(@, mainWindowName)]
     ELSE a

RECURSIVE CloseEach(_, _, _)
CloseEach(S, list, throws) ==
  IF list = <<>> THEN S
  ELSE CloseEach(closeWindow(S, ByHandle(Head(list)), throws), Tail(list), throws)

\* closeAllWindows without winPool.clear()
closeAllWindowsNoClear(S, throws) == CloseEach(S, getAllWindows(S.pool), throws)

closeAllWindows(S, throws) ==
  [CloseEach(S, getAllWindows(S.pool), throws) EXCEPT !.pool = <<>>]

(* ------------------------------------------------------------------ create *)
HasFree(ws) == \E h \in Handles : ws[h].st = "none"
FreeWin(ws) == CHOOSE h \in Handles : ws[h].st = "none" /\ \A g \in 1..(h - 1) : ws[g].st # "none"

\* new BrowserWindow(...): every web-contents-created listener that earlier
\* setupContextMenu calls have left on app attaches the menu to the new surface
NewWin(S, windowName) ==
  [FreshWin(windowName) EXCEPT
     !.ctxHandlers = Cardinality({g \in Handles : S.wins[g].st # "none"})]

\* contextMenu.contextMenu(mainWindow.webContents)
setupContextMenu(S, w) == [S EXCEPT !.wins[w].ctxHandlers = @ + 1]

\* createWindow without the reuse branch
createWindowAlways(S, windowName) ==
  IF HasFree(S.wins)
  THEN LET h == FreeWin(S.wins)
       IN [S |-> setupContextMenu([S EXCEPT !.wins[h] = NewWin(S, windowName),
                                            !.pool = PoolSet(@, windowName, h, 0)], h),
           ret |-> h, built |-> TRUE]
  ELSE [S |-> S, ret |-> getWindow(S.pool, ByName(windowName)), built |-> FALSE]

\* createWindow without the setupContextMenu call
createWindowNoMenu(S, windowName) ==
  LET mainWindow == getWindow(S.pool, ByName(windowName))
  IN IF mainWindow # NoWin /\ ~IsDestroyed(S.wins, mainWindow)
     THEN [S |-> [S EXCEPT !.wins = NFocus(NShow(@, mainWindow), mainWindow),
                           !.appHidden = FALSE],
           ret |-> mainWindow, built |-> FALSE]
     ELSE LET h == FreeWin(S.wins)
          IN [S |-> [S EXCEPT !.wins[h] = NewWin(S, windowName),
                              !.pool = PoolSet(@, windowName, h, 0)],
              ret |-> h, built |-> TRUE]

\* the result of a create call: the new state, the handle returned, and whether
\* a native window was constructed
createWindow(S, windowName) ==
  LET mainWindow == getWindow(S.pool, ByName(windowName))
  IN IF mainWindow # NoWin /\ ~IsDestroyed(S.wins, mainWindow)
     THEN [S |-> [S EXCEPT !.wins = NFocus(NShow(@, mainWindow), mainWindow),
                           !.appHidden = FALSE],
           ret |-> mainWindow, built |-> FALSE]
     ELSE LET h == FreeWin(S.wins)
          IN [S |-> setupContextMenu([S EXCEPT !.wins[h] = NewWin(S, windowName),
                                               !.pool = PoolSet(@, windowName, h, 0)], h),
              ret |-> h, built |-> TRUE]

\* once('ready-to-show', ...): fires only if the window has not been shown ready yet
setupWindowEvents(S, w, built) ==
  IF built THEN [S EXCEPT !.wins[w].readyPending = TRUE] ELSE S

\* the three webRequest listeners of the session are replaced by new ones that
\* share a new, empty map (the windows use the one default session)
setupWebRequestHeaders(S) == [S EXCEPT !.host.hooked = TRUE, !.host.reqMap = {}]

\* webContents.on('will-navigate', ...) adds a listener on every call;
\* setWindowOpenHandler replaces the one handler the window has
setupWebContentsHandlers(S, w) ==
  setupWebRequestHeaders([S EXCEPT !.wins[w].navHandlers = @ + 1])

createMainWindow(S) ==
  LET r == createWindow(S, MAIN)
  IN [r EXCEPT !.S = setupWebContentsHandlers(setupWindowEvents(@, r.ret, r.built), r.ret)]

createBrowserWindow(S) ==
  LET r == createWindow(S, BROWSER)
      a == setupWebContentsHandlers(setupWindowEvents(r.S, r.ret, r.built), r.ret)
  IN [r EXCEPT !.S = [a EXCEPT !.wins[r.ret].closeHandlers = @ + 1]]

\* debug: configManager.debug; the listener shows the window at its first paint
createSnifferWindow(S, windowName, debug) ==
  LET r == createWindow(S, windowName)
  IN IF debug THEN [r EXCEPT !.S = setupWindowEvents(@, r.ret, r.built)] ELSE r

\* would createWindow(name) construct a window in this state
WouldBuild(name) ==
  LET w == getWindow(winPool, ByName(name)) IN w = NoWin \/ IsDestroyed(wins, w)

(* -------------------------------------------------------- navigation guard *)
\* a URL is a sequence of pieces of text; the strings the code searches for are
\* made of whole pieces, so String.includes is a search for a run of pieces
RECURSIVE IndexOf(_, _, _)
IndexOf(url, needle, i) ==
  IF i + Len(needle) - 1 > Len(url) THEN 0
  ELSE IF SubSeq(url, i, i + Len(needle) - 1) = needle THEN i
  ELSE IndexOf(url, needle, i + 1)

\* url.includes(needle)
Includes(url, needle) == IndexOf(url, needle, 1) # 0

\* url.replace(needle, ''): the first occurrence only
ReplaceFirst(url, needle) ==
  LET i == IndexOf(url, needle, 1)
  IN IF i = 0 THEN url
     ELSE SubSeq(url, 1, i - 1) \o SubSeq(url, i + Len(needle), Len(url))

oauthProviderUrls == {<<"github.com">>, <<"catni.cn">>, <<"pagespy.org">>}
FileMarker == <<"http://", "file/">>
DevServer == <<"localhost:5173">>
APP_FILE_PATH == <<"APP_FILE_PATH">>

\* scheme and host of a URL
Origin(url) == SubSeq(url, 1, 2)
DevOrigin == <<"http://", "localhost:5173">>

Urls ==
  { <<"https://", "example.com", "/">>,
    <<"http://", "localhost:5173", "/">>,
    <<"https://", "example.com", "/?next=", "localhost:5173">>,
    <<"https://", "github.com", "/login">>,
    <<"https://", "auth.", "pagespy.org", "/">>,
    <<"http://", "file/", "a.txt">>,
    <<"http://", "file/", "github.com", ".txt">> }

\* the will-navigate listeners of window w, each run in turn on one event
RECURSIVE WillNavigateEach(_, _, _)
WillNavigateEach(r, url, n) ==
  IF n = 0 THEN r
  ELSE WillNavigateEach(
         IF Includes(url, DevServer) THEN r
         ELSE [r EXCEPT !.prevented = TRUE,
                        !.S.host.openExternals = Append(@, url)],
         url, n - 1)

willNavigate(S, w, url) ==
  WillNavigateEach([S |-> S, prevented |-> FALSE], url, S.wins[w].navHandlers)

Allow == [action |-> "allow", partition |-> "persist:webview"]
Deny == [action |-> "deny", partition |-> ""]

\* the handler with the provider branch leaving the partition to the default
windowOpenHandlerSharedSession(S, url) ==
  IF \E link \in oauthProviderUrls : Includes(url, link)
  THEN [S |-> S, decision |-> [Allow EXCEPT !.partition = ""]]
  ELSE [S |-> S, decision |-> Deny]

\* the handler falling back to the platform's own new window for file URLs
windowOpenHandlerFileAllowed(S, url) ==
  IF \E link \in oauthProviderUrls : Includes(url, link)
  THEN [S |-> S, decision |-> Allow]
  ELSE IF Includes(url, FileMarker)
  THEN [S |-> S, decision |-> [Allow EXCEPT !.partition = ""]]
  ELSE [S |-> S, decision |-> Deny]

\* the handler given to setWindowOpenHandler; the result carries its decision
windowOpenHandler(S, url) ==
  IF \E link \in oauthProviderUrls : Includes(url, link)
  THEN [S |-> S, decision |-> Allow]
  ELSE IF Includes(url, FileMarker)
  THEN LET fileName == ReplaceFirst(url, FileMarker)
           filePath == APP_FILE_PATH \o <<"/">> \o fileName
       IN [S |-> [S EXCEPT !.host.openPaths = Append(@, filePath)], decision |-> Deny]
  ELSE LET window == getWindow(S.pool, ByName(BROWSER))
       IN IF window # NoWin /\ ~IsDestroyed(S.wins, window)
          THEN LET a == showWindow(S, ByHandle(window))
               IN [S |-> [a EXCEPT !.host.sends = Append(@, [win |-> window, url |-> url])],
                   decision |-> Deny]
          ELSE LET r == createBrowserWindow(S)
               IN [S |-> [r.S EXCEPT !.host.loads = @ \cup {[win |-> r.ret, url |-> url]}],
                   decision |-> Deny]

\* did-finish-load on window w: every waiting once-listener starts its timer
didFinishLoad(S, w) ==
  LET mine == {l \in S.host.loads : l.win = w}
  IN [S EXCEPT !.host.loads = @ \ mine, !.host.navTimers = @ \cup mine]

\* the timer's callback: window.webContents.send throws on a destroyed window
navTimer(S, t) ==
  IF IsDestroyed(S.wins, t.win)
  THEN [S EXCEPT !.host.navTimers = @ \ {t}]
  ELSE [S EXCEPT !.host.navTimers = @ \ {t},
                 !.host.sends = Append(@, [win |-> t.win, url |-> t.url])]

(* ------------------------------------------------------- request headers *)
\* Map.has, Map.delete and Map.set on reqMap, a set of entries with distinct ids
MapHas(m, id) == \E e \in m : e.id = id
MapDelete(m, id) == {e \in m : e.id # id}
MapSet(m, id, redirect, headers) ==
  MapDelete(m, id) \cup {[id |-> id, redirect |-> redirect, headers |-> headers]}

DetectorMarkers == {<<"devtools-detector">>, <<"disable-devtool">>}
PlainUrl == <<"https://", "example.com", "/">>

\* the URLs requests ask for
NetUrls ==
  { PlainUrl,
    <<"https://", "example.com", "/", "devtools-detector", ".js">>,
    <<"https://", "example.com", "/", "@headers">> }

\* what convertUriToStandard may give back for a URL: nothing to convert, a
\* standard URL with the headers taken out of it, or headers with the URL as it was
Conversions(url) ==
  { [redirect |-> url, headers |-> {}],
    [redirect |-> PlainUrl, headers |-> {"Referer"}],
    [redirect |-> url, headers |-> {"Referer"}] }

\* the request headers a request may carry
RequestHeaders == {[Redirect |-> ""], [Redirect |-> "manual"]}

\* the onBeforeRequest listener; conv is the result of convertUriToStandard(url)
onBeforeRequest(S, id, url, conv) ==
  IF \E f \in DetectorMarkers : Includes(url, f)
  THEN [S EXCEPT !.host.net[id] = [stage |-> "cancelled", url |-> url]]
  ELSE IF conv.headers # {} /\ url # conv.redirect
  THEN [S EXCEPT !.host.reqMap = MapSet(@, id, conv.redirect, conv.headers),
                 !.host.net[id] = [stage |-> "redirect", url |-> conv.redirect]]
  ELSE [S EXCEPT !.host.net[id] = [stage |-> "request", url |-> url]]

\* the onBeforeSendHeaders listener: the entry of the request is taken out of the
\* map and its headers go into the request; a request in manual redirect mode
\* gets a new entry
onBeforeSendHeaders(S, id, requestHeaders) ==
  LET a == [S EXCEPT !.host.reqMap = MapDelete(@, id), !.host.net[id].stage = "sent"]
  IN IF requestHeaders.Redirect = "manual"
     THEN [a EXCEPT !.host.reqMap = MapSet(@, id, S.host.net[id].url, {"Redirect"})]
     ELSE a

\* the onHeadersReceived listener
onHeadersReceived(S, id) ==
  [S EXCEPT !.host.reqMap = MapDelete(@, id), !.host.net[id].stage = "response"]

\* a request is over: cancelled by the listener, completed, or failed
Finished(net, id) == net[id].stage \in {"cancelled", "completed", "failed"}

(* ------------------------------------------------------------ context menu *)
\* a selection is a sequence of characters; " " stands for any white space
Selections == {<<>>, <<" ">>, <<"a">>, <<" ", "a", " ">>}

\* the ContextMenuParams the handler reads
Props ==
  [isEditable : BOOLEAN, selectionText : Selections,
   editFlags : [canCopy : BOOLEAN, canPaste : BOOLEAN, canCut : BOOLEAN],
   misspelledWord : {"", "teh"}, dictionarySuggestions : {<<>>, <<"the">>}]

\* String.prototype.trim()
RECURSIVE Trim(_)
Trim(t) ==
  IF t = <<>> THEN t
  ELSE IF Head(t) = " " THEN Trim(Tail(t))
  ELSE IF t[Len(t)] = " " THEN Trim(SubSeq(t, 1, Len(t) - 1))
  ELSE t

\* a MenuItemConstructorOptions; role "" is undefined, click "" is no handler
Item(id, label, role, enabled, visible, click) ==
  [type |-> "normal", id |-> id, label |-> label, role |-> role, enabled |-> enabled,
   visible |-> visible, click |-> click]

Separator == [Item("", "", "", TRUE, TRUE, "") EXCEPT !.type = "separator"]

\* template.forEach: remove the role from items that are not enabled
NoRoleIfDisabled(item) == IF item.enabled = FALSE THEN [item EXCEPT !.role = ""] ELSE item

\* createEditMenuItems with the selection left out of the enabled state
createEditMenuItemsFlagsOnly(properties) ==
  LET hasText == Len(Trim(properties.selectionText)) > 0
      template ==
        << Item("copy", "system.edit.copy", "copy", properties.editFlags.canCopy,
                properties.isEditable \/ hasText, ""),
           Item("paste", "system.edit.paste", "paste", properties.editFlags.canPaste,
                properties.isEditable, ""),
           Item("cut", "system.edit.cut", "cut", properties.editFlags.canCut,
                properties.isEditable, "") >>
  IN [i \in 1..Len(template) |-> NoRoleIfDisabled(template[i])]

createEditMenuItems(properties) ==
  LET hasText == Len(Trim(properties.selectionText)) > 0
      can(flag) == flag /\ hasText
      template ==
        << Item("copy", "system.edit.copy", "copy", can(properties.editFlags.canCopy),
                properties.isEditable \/ hasText, ""),
           Item("paste", "system.edit.paste", "paste", properties.editFlags.canPaste,
                properties.isEditable, ""),
           Item("cut", "system.edit.cut", "cut", can(properties.editFlags.canCut),
                properties.isEditable, "") >>
  IN [i \in 1..Len(template) |-> NoRoleIfDisabled(template[i])]

createInspectMenuItems ==
  << Item("inspect", "system.contextMenu.inspect", "", TRUE, TRUE, "toggleDevTools") >>

createSpellCheckMenuItem(properties) ==
  LET hasText == Len(properties.selectionText) > 0
  IN Item("learnSpelling", "&Learn Spelling", "", TRUE,
          properties.isEditable /\ hasText /\ properties.misspelledWord # "",
          "addWordToSpellCheckerDictionary")

createDictionarySuggestions(properties) ==
  LET hasText == Len(properties.selectionText) > 0
  IN IF ~hasText \/ properties.misspelledWord = "" THEN <<>>
     ELSE IF Len(properties.dictionarySuggestions) = 0
     THEN << Item("dictionarySuggestions", "No Guesses Found", "", FALSE, TRUE, "") >>
     ELSE [i \in 1..Len(properties.dictionarySuggestions) |->
             Item("dictionarySuggestions", properties.dictionarySuggestions[i], "", TRUE,
                  properties.isEditable /\ hasText /\ properties.misspelledWord # "",
                  "replaceMisspelling")]

\* the listener without the test on the filtered edit entries
contextMenuAlways(properties) ==
  LET template == createEditMenuItems(properties)
      filtered == SelectSeq(template, LAMBDA item : item.visible # FALSE)
      inner == filtered \o createInspectMenuItems
      dictionarySuggestions == createDictionarySuggestions(properties)
  IN IF Len(dictionarySuggestions) > 0
     THEN dictionarySuggestions \o <<Separator>>
            \o <<createSpellCheckMenuItem(properties)>> \o <<Separator>> \o inner
     ELSE inner

\* the listener with the inspect entry put in front of the edit entries
contextMenuInspectFirst(properties) ==
  LET template == createEditMenuItems(properties)
      filtered == SelectSeq(template, LAMBDA item : item.visible # FALSE)
  IN IF Len(filtered) > 0
     THEN LET inner == createInspectMenuItems \o filtered
              dictionarySuggestions == createDictionarySuggestions(properties)
          IN IF Len(dictionarySuggestions) > 0
             THEN dictionarySuggestions \o <<Separator>>
                    \o <<createSpellCheckMenuItem(properties)>> \o <<Separator>> \o inner
             ELSE inner
     ELSE <<>>

\* the context-menu listener: the template handed to Menu.buildFromTemplate and
\* popped up, <<>> when no menu is built
contextMenu(properties) ==
  LET template == createEditMenuItems(properties)
      filtered == SelectSeq(template, LAMBDA item : item.visible # FALSE)
  IN IF Len(filtered) > 0
     THEN LET inner == filtered \o createInspectMenuItems
              dictionarySuggestions == createDictionarySuggestions(properties)
          IN IF Len(dictionarySuggestions) > 0
             THEN dictionarySuggestions \o <<Separator>>
                    \o <<createSpellCheckMenuItem(properties)>> \o <<Separator>> \o inner
             ELSE inner
     ELSE <<>>

(* ---------------------------------------------------------------- crashes *)
\* the crash handler with the comparison turned round
CrashHandlerFlipped(p, w, currentTime) ==
  LET mainWindowName == getWindowName(p, w)
      lastCrashTime == IF PoolHas(p, mainWindowName)
                       THEN p[PoolIndex(p, mainWindowName)].lastCrashTime ELSE 0
  IN [pool |-> PoolSet(p, mainWindowName, w, lastCrashTime),
      outcome |-> IF currentTime - lastCrashTime < CrashWindow THEN "reload" ELSE "exit"]

\* the render-process-gone listener of setupWindowMonitor; the result carries
\* the branch taken
CrashHandler(p, w, currentTime) ==
  LET mainWindowName == getWindowName(p, w)
      lastCrashTime == IF PoolHas(p, mainWindowName)
                       THEN p[PoolIndex(p, mainWindowName)].lastCrashTime ELSE 0
  IN [pool |-> PoolSet(p, mainWindowName, w, lastCrashTime),
      outcome |-> IF currentTime - lastCrashTime > CrashWindow THEN "reload" ELSE "exit"]

(* ----------------------------------------------------------------- actions *)
Running == exitCalls = 0

NoCreates == [n \in Names |-> NoWin]

Idents == {ByName(n) : n \in Names} \cup {ByHandle(w) : w \in {h \in Handles : wins[h].st # "none"}}

\* handshakes a native close() of w would start now
ShakesOf(w) == IF IsLive(wins, w) THEN wins[w].closeHandlers ELSE 0

TimerPending == \E i \in 1..Len(shakes) : shakes[i].timer

NextDeadline ==
  CHOOSE d \in {shakes[i].deadline : i \in {j \in 1..Len(shakes) : shakes[j].timer}} :
    \A i \in 1..Len(shakes) : shakes[i].timer => d <= shakes[i].deadline

Keep == UNCHANGED <<platform, now, isQuitting, exitCalls, crashes, crashAt>>

Init ==
  /\ platform \in Platforms
  /\ now = Epoch
  /\ wins = [h \in Handles |-> NoneWin]
  /\ winPool = <<>>
  /\ shakes = <<>>
  /\ sentDestroy = FALSE
  /\ immediates = {}
  /\ appHidden = FALSE
  /\ isQuitting = FALSE
  /\ quitCalls = 0
  /\ exitCalls = 0
  /\ crashes = 0
  /\ crashAt = [h \in Handles |-> -1]
  /\ closeReqAt = [h \in Handles |-> -1]
  /\ destroys = [h \in Handles |-> 0]
  /\ destroyedLate = [h \in Handles |-> FALSE]
  /\ host = NoHost
  /\ lastCreate = NoCreates
  /\ lastCall = [op |-> "init"]

CreateMainWindow ==
  /\ Running
  /\ WouldBuild(MAIN) => HasFree(wins)
  /\ ~WouldBuild(MAIN) => wins[getWindow(winPool, ByName(MAIN))].navHandlers < MaxHandlers
  /\ LET r == createMainWindow(World)
     IN /\ Commit(r.S)
        /\ lastCreate' = [lastCreate EXCEPT ![MAIN] = r.ret]
        /\ lastCall' = [op |-> "create", name |-> MAIN, ret |-> r.ret, built |-> r.built,
                        prev |-> lastCreate[MAIN]]
  /\ Keep

CreateBrowserWindow ==
  /\ Running
  /\ WouldBuild(BROWSER) => HasFree(wins)
  /\ ~WouldBuild(BROWSER) => wins[getWindow(winPool, ByName(BROWSER))].closeHandlers < MaxHandlers
  /\ LET r == createBrowserWindow(World)
     IN /\ Commit(r.S)
        /\ lastCreate' = [lastCreate EXCEPT ![BROWSER] = r.ret]
        /\ lastCall' = [op |-> "create", name |-> BROWSER, ret |-> r.ret, built |-> r.built,
                        prev |-> lastCreate[BROWSER]]
  /\ Keep

CreateSnifferWindow(n, debug) ==
  /\ Running
  /\ WouldBuild(n) => HasFree(wins)
  /\ LET r == createSnifferWindow(World, n, debug)
     IN /\ Commit(r.S)
        /\ lastCall' = [op |-> "create", name |-> n, ret |-> r.ret, built |-> r.built,
                        prev |-> NoWin]
  /\ UNCHANGED lastCreate
  /\ Keep

ShowWindow(id) ==
  /\ Running
  /\ Commit(showWindow(World, id))
  /\ lastCall' = [op |-> "show", win |-> getWindow(winPool, id),
                  log |-> showWindow(World, id).log]
  /\ UNCHANGED lastCreate
  /\ Keep

HideWindow(id) ==
  /\ Running
  /\ Commit(hideWindow(World, id))
  /\ lastCall' = [op |-> "hide", win |-> getWindow(winPool, id),
                  log |-> hideWindow(World, id).log]
  /\ UNCHANGED lastCreate
  /\ Keep

ToggleWindow(id) ==
  /\ Running
  /\ Commit(toggleWindow(World, id))
  /\ lastCall' = [op |-> "toggle"]
  /\ UNCHANGED lastCreate
  /\ Keep

ReloadWindow(id, force) ==
  /\ Running
  /\ Commit(reloadWindow(World, id, force))
  /\ lastCall' = [op |-> "reload"]
  /\ UNCHANGED lastCreate
  /\ Keep

SingleCalls == {"show", "hide", "toggle", "reload", "close"}

\* one of the single-window operations called with a name the registry has no
\* entry for; same: the call left everything a handler can touch as it was
MissCall(call, n) ==
  /\ Running
  /\ ~PoolHas(winPool, n)
  /\ LET id == ByName(n)
         S == CASE call = "show" -> showWindow(World, id)
                [] call = "hide" -> hideWindow(World, id)
                [] call = "toggle" -> toggleWindow(World, id)
                [] call = "reload" -> reloadWindow(World, id, FALSE)
                [] call = "close" -> closeWindow(World, id, FALSE)
     IN /\ Commit(S)
        /\ lastCall' = [op |-> "miss", call |-> call, name |-> n, same |-> (S = World)]
  /\ UNCHANGED lastCreate
  /\ Keep

ToggleAllWindows ==
  /\ Running
  /\ Commit(toggleAllWindows(World))
  /\ lastCall' = [op |-> "toggleAll",
                  pre |-> SomeVisible(wins, getAllWindows(winPool)),
                  anyVisible |-> \E i \in 1..Len(winPool) :
                                    /\ ~IsDestroyed(wins, winPool[i].window)
                                    /\ IsVisible(wins, winPool[i].window)]
  /\ UNCHANGED lastCreate
  /\ Keep

CloseWindow(id, throws) ==
  /\ Running
  /\ LET w == getWindow(winPool, id)
     IN /\ throws => IsLive(wins, w)
        /\ w # NoWin /\ ~throws => Len(shakes) + ShakesOf(w) <= MaxShakes
        /\ Commit(closeWindow(World, id, throws))
        /\ lastCall' = [op |-> "close", byName |-> (id.kind = "name"), win |-> w,
                        name |-> IF id.kind = "name"
                                 THEN (IF PoolHas(winPool, id.name) THEN id.name ELSE NullKey)
                                 ELSE getWindowName(winPool, w),
                        threw |-> throws]
  /\ lastCreate' = NoCreates
  /\ Keep

ShakesOfAll ==
  LET RECURSIVE Sum(_)
      Sum(i) == IF i > Len(winPool) THEN 0 ELSE ShakesOf(winPool[i].window) + Sum(i + 1)
  IN Sum(1)

CloseAllWindows(throws) ==
  /\ Running
  /\ throws => \E i \in 1..Len(winPool) : IsLive(wins, winPool[i].window)
  /\ ~throws => Len(shakes) + ShakesOfAll <= MaxShakes
  /\ Commit(closeAllWindows(World, throws))
  /\ lastCall' = [op |-> "closeAll"]
  /\ lastCreate' = NoCreates
  /\ Keep

\* the user (or the renderer's request-close message) asks a window to close
UserClose(w) ==
  /\ Running
  /\ IsLive(wins, w)
  /\ Len(shakes) + ShakesOf(w) <= MaxShakes
  /\ Commit(NClose(World, w))
  /\ lastCall' = [op |-> "userClose"]
  /\ lastCreate' = NoCreates
  /\ Keep

\* an unprevented close completes: the window is destroyed and 'closed' fires
Closed(w) ==
  /\ Running
  /\ IsLive(wins, w) /\ wins[w].closing
  /\ Commit(Gone(World, w))
  /\ lastCall' = [op |-> "closed", win |-> w, quit |-> Gone(World, w).quits > quitCalls]
  /\ lastCreate' = NoCreates
  /\ Keep

\* the 800 ms timer of handshake i fires
TimerFire(i) ==
  /\ Running
  /\ i \in 1..Len(shakes)
  /\ shakes[i].timer /\ now >= shakes[i].deadline
  /\ Commit(onAck(World, i))
  /\ lastCall' = [op |-> "timer", win |-> shakes[i].win, listening |-> shakes[i].listener,
                  wasLive |-> IsLive(wins, shakes[i].win),
                  delay |-> IF closeReqAt[shakes[i].win] = -1 THEN -1
                            ELSE now - closeReqAt[shakes[i].win]]
  /\ lastCreate' = NoCreates
  /\ Keep

\* the same callback with the clock left out: a pending timer may run out at any
\* moment (every timed firing order is among the untimed ones)
TimerElapsed(i) ==
  /\ Running
  /\ i \in 1..Len(shakes)
  /\ shakes[i].timer
  /\ Commit(onAck(World, i))
  /\ lastCall' = [op |-> "timer", win |-> shakes[i].win, listening |-> shakes[i].listener,
                  wasLive |-> IsLive(wins, shakes[i].win),
                  delay |-> IF closeReqAt[shakes[i].win] = -1 THEN -1
                            ELSE now - closeReqAt[shakes[i].win]]
  /\ lastCreate' = NoCreates
  /\ Keep

\* a renderer's WINDOW_DESTROY_RELAY message arrives on ipcMain
Ack ==
  /\ Running
  /\ sentDestroy
  /\ Commit(EmitAck(World, 1))
  /\ lastCall' = [op |-> "ack",
                  wins |-> {shakes[i].win : i \in {j \in 1..Len(shakes) : shakes[j].listener}},
                  timers |-> {shakes[i].win : i \in {j \in 1..Len(shakes) : shakes[j].timer}},
                  left |-> {shakes[i].deadline - now : i \in 1..Len(shakes)},
                  changed |-> (EmitAck(World, 1) # World)]
  /\ lastCreate' = NoCreates
  /\ Keep

Crash(w) ==
  /\ Running
  /\ IsLive(wins, w)
  /\ crashes < MaxCrashes
  /\ LET r == CrashHandler(winPool, w, now)
     IN /\ winPool' = r.pool
        /\ exitCalls' = IF r.outcome = "exit" THEN exitCalls + 1 ELSE exitCalls
        /\ lastCall' = [op |-> "crash", win |-> w, outcome |-> r.outcome,
                        prevAt |-> crashAt[w], name |-> getWindowName(winPool, w)]
  /\ crashes' = crashes + 1
  /\ crashAt' = [crashAt EXCEPT ![w] = now]
  /\ UNCHANGED <<platform, now, wins, shakes, sentDestroy, immediates, appHidden,
                 isQuitting, quitCalls, closeReqAt, destroys, destroyedLate, host, lastCreate>>

\* the renderer has painted for the first time
ReadyToShow(w) ==
  /\ Running
  /\ IsLive(wins, w) /\ wins[w].readyPending
  /\ Commit([World EXCEPT !.wins = NShow([@ EXCEPT ![w].readyPending = FALSE], w),
                          !.appHidden = FALSE])
  /\ lastCall' = [op |-> "readyToShow"]
  /\ UNCHANGED lastCreate
  /\ Keep

\* the setImmediate callback of showWindow's Linux branch
Immediate(w) ==
  /\ Running
  /\ w \in immediates
  /\ Commit([World EXCEPT !.imm = @ \ {w},
                          !.wins = IF ~IsDestroyed(@, w) THEN NFocus(NShow(@, w), w) ELSE @])
  /\ lastCall' = [op |-> "immediate", win |-> w]
  /\ UNCHANGED lastCreate
  /\ Keep

BeforeQuit ==
  /\ Running
  /\ ~isQuitting
  /\ isQuitting' = TRUE
  /\ lastCall' = [op |-> "beforeQuit"]
  /\ UNCHANGED <<platform, now, wins, winPool, shakes, sentDestroy, immediates,
                 appHidden, quitCalls, exitCalls, crashes, crashAt, closeReqAt, destroys,
                 destroyedLate, host, lastCreate>>

\* time passes while a safeClose timer is pending: never past the next deadline
TickTimer ==
  /\ Running
  /\ TimerPending
  /\ NextDeadline > now
  /\ now' = IF now + SmallStep < NextDeadline THEN now + SmallStep ELSE NextDeadline
  /\ lastCall' = [op |-> "tick"]
  /\ UNCHANGED <<platform, wins, winPool, shakes, sentDestroy, immediates,
                 appHidden, isQuitting, quitCalls, exitCalls, crashes, crashAt, closeReqAt,
                 destroys, destroyedLate, host, lastCreate>>

\* a long quiet period, as long as the crash-loop window
Wait ==
  /\ Running
  /\ ~TimerPending
  /\ now + BigStep <= Epoch + MaxBigTicks * BigStep + MaxWin * CloseTimeout
  /\ now' = now + BigStep
  /\ lastCall' = [op |-> "wait"]
  /\ UNCHANGED <<platform, wins, winPool, shakes, sentDestroy, immediates, appHidden,
                 isQuitting, quitCalls, exitCalls, crashes, crashAt, closeReqAt, destroys,
                 destroyedLate, host, lastCreate>>

\* the user turns to a window of another application
Blur(w) ==
  /\ Running
  /\ IsLive(wins, w) /\ IsFocused(wins, w)
  /\ Commit([World EXCEPT !.wins[w].focused = FALSE])
  /\ lastCall' = [op |-> "blur"]
  /\ UNCHANGED lastCreate
  /\ Keep

\* the user minimizes a window from its title bar
UserMinimize(w) ==
  /\ Running
  /\ IsLive(wins, w) /\ IsVisible(wins, w)
  /\ Commit([World EXCEPT !.wins = NMinimize(@, w)])
  /\ lastCall' = [op |-> "minimize"]
  /\ UNCHANGED lastCreate
  /\ Keep

\* the user puts a window into full screen
UserFullScreen(w) ==
  /\ Running
  /\ IsLive(wins, w) /\ IsVisible(wins, w) /\ ~IsFullScreen(wins, w)
  /\ Commit([World EXCEPT !.wins[w].fullscreen = TRUE])
  /\ lastCall' = [op |-> "fullScreen"]
  /\ UNCHANGED lastCreate
  /\ Keep

\* a right click on the content surface of window w
ContextMenuEvent(w, properties) ==
  /\ Running
  /\ IsLive(wins, w) /\ wins[w].ctxHandlers > 0
  /\ lastCall' = [op |-> "contextMenu", win |-> w, props |-> properties,
                  edit |-> createEditMenuItems(properties),
                  popup |-> contextMenu(properties)]
  /\ UNCHANGED <<wins, winPool, shakes, sentDestroy, immediates, appHidden, quitCalls,
                 closeReqAt, destroys, destroyedLate, host, lastCreate>>
  /\ Keep

\* the user picks the inspect entry of the menu just popped up on window w
InspectClick(w) ==
  /\ Running
  /\ IsLive(wins, w)
  /\ lastCall.op = "contextMenu" /\ lastCall.win = w
  /\ \E i \in 1..Len(lastCall.popup) : lastCall.popup[i].click = "toggleDevTools"
  /\ Commit([World EXCEPT !.wins[w].devTools = ~@])
  /\ lastCall' = [op |-> "inspectClick", win |-> w]
  /\ UNCHANGED lastCreate
  /\ Keep

\* a guarded content surface asks to open url in a new window
OpenWindow(w, url) ==
  /\ Running
  /\ IsLive(wins, w) /\ wins[w].navHandlers > 0
  /\ host.requests < MaxRequests
  /\ LET browser == getWindow(winPool, ByName(BROWSER))
         alive == browser # NoWin /\ ~IsDestroyed(wins, browser)
         r == windowOpenHandler([World EXCEPT !.host.requests = @ + 1], url)
     IN /\ HasFree(wins) \/ alive
           \/ Includes(url, FileMarker) \/ \E link \in oauthProviderUrls : Includes(url, link)
        /\ Commit(r.S)
        /\ lastCall' = [op |-> "open", url |-> url, decision |-> r.decision,
                        reused |-> IF alive THEN browser ELSE NoWin,
                        before |-> [wins |-> {h \in Handles : Constructed(wins, h)},
                                    sends |-> host.sends, paths |-> host.openPaths,
                                    loads |-> host.loads]]
  /\ UNCHANGED lastCreate
  /\ Keep

\* a guarded content surface starts a top-level navigation to url
WillNavigate(w, url) ==
  /\ Running
  /\ IsLive(wins, w) /\ wins[w].navHandlers > 0
  /\ host.requests < MaxRequests
  /\ LET r == willNavigate([World EXCEPT !.host.requests = @ + 1], w, url)
     IN /\ Commit(r.S)
        /\ lastCall' = [op |-> "willNavigate", url |-> url, prevented |-> r.prevented,
                        before |-> host.openExternals]
  /\ UNCHANGED lastCreate
  /\ Keep

\* the first content load of a window created for a navigation has finished
DidFinishLoad(w) ==
  /\ Running
  /\ IsLive(wins, w)
  /\ \E l \in host.loads : l.win = w
  /\ Commit(didFinishLoad(World, w))
  /\ lastCall' = [op |-> "didFinishLoad"]
  /\ UNCHANGED lastCreate
  /\ Keep

\* the session is about to make request id for url (the first time, or again
\* for the URL the listener redirected it to)
BeforeRequest(id, url, conv) ==
  /\ Running /\ host.hooked
  /\ \/ host.net[id].stage = "none" /\ \A j \in 1..(id - 1) : host.net[j].stage # "none"
     \/ host.net[id].stage = "redirect" /\ url = host.net[id].url
  /\ conv \in Conversions(url)
  /\ Commit(onBeforeRequest(World, id, url, conv))
  /\ lastCall' = [op |-> "beforeRequest", id |-> id]
  /\ UNCHANGED lastCreate
  /\ Keep

\* the session is about to send the headers of request id
BeforeSendHeaders(id, requestHeaders) ==
  /\ Running /\ host.hooked
  /\ host.net[id].stage = "request"
  /\ Commit(onBeforeSendHeaders(World, id, requestHeaders))
  /\ lastCall' = [op |-> "beforeSendHeaders", id |-> id,
                  custom |-> MapHas(host.reqMap, id)]
  /\ UNCHANGED lastCreate
  /\ Keep

\* the response headers of request id have arrived
HeadersReceived(id) ==
  /\ Running /\ host.hooked
  /\ host.net[id].stage = "sent"
  /\ Commit(onHeadersReceived(World, id))
  /\ lastCall' = [op |-> "headersReceived", id |-> id]
  /\ UNCHANGED lastCreate
  /\ Keep

\* request id completes after its response; no listener is registered for this
Completed(id) ==
  /\ Running
  /\ host.net[id].stage = "response"
  /\ Commit([World EXCEPT !.host.net[id].stage = "completed"])
  /\ lastCall' = [op |-> "completed", id |-> id]
  /\ UNCHANGED lastCreate
  /\ Keep

\* request id fails (network error, abort) at any point after it was started;
\* no listener is registered for this
ErrorOccurred(id) ==
  /\ Running
  /\ host.net[id].stage \in {"redirect", "request", "sent", "response"}
  /\ Commit([World EXCEPT !.host.net[id].stage = "failed"])
  /\ lastCall' = [op |-> "errorOccurred", id |-> id, at |-> host.net[id].stage]
  /\ UNCHANGED lastCreate
  /\ Keep

\* the settling timer of a navigation runs out
NavTimer(t) ==
  /\ Running
  /\ t \in host.navTimers
  /\ Commit(navTimer(World, t))
  /\ lastCall' = [op |-> "navTimer", win |-> t.win, url |-> t.url,
                  sent |-> ~IsDestroyed(wins, t.win),
                  threw |-> IsDestroyed(wins, t.win)]
  /\ UNCHANGED lastCreate
  /\ Keep

Next ==
  \/ CreateMainWindow
  \/ CreateBrowserWindow
  \/ \E id \in Idents : ShowWindow(id)
  \/ \E id \in Idents : HideWindow(id)
  \/ \E id \in Idents : ToggleWindow(id)
  \/ \E id \in Idents, force \in BOOLEAN : ReloadWindow(id, force)
  \/ ToggleAllWindows
  \/ \E id \in Idents, throws \in BOOLEAN : CloseWindow(id, throws)
  \/ \E throws \in BOOLEAN : CloseAllWindows(throws)
  \/ \E w \in Handles : UserClose(w)
  \/ \E w \in Handles : Closed(w)
  \/ \E i \in 1..MaxShakes : TimerFire(i)
  \/ Ack
  \/ \E w \in Handles : Crash(w)
  \/ \E w \in Handles : ReadyToShow(w)
  \/ \E w \in Handles : Immediate(w)
  \/ BeforeQuit
  \/ TickTimer
  \/ Wait
  \/ \E w \in Handles, url \in Urls : OpenWindow(w, url)
  \/ \E w \in Handles, url \in Urls : WillNavigate(w, url)
  \/ \E w \in Handles : DidFinishLoad(w)
  \/ \E t \in host.navTimers : NavTimer(t)
  \/ \E w \in Handles : Blur(w)
  \/ \E w \in Handles : UserMinimize(w)
  \/ \E w \in Handles : UserFullScreen(w)
  \/ \E n \in SnifferNames, debug \in BOOLEAN : CreateSnifferWindow(n, debug)
  \/ \E w \in Handles, properties \in Props : ContextMenuEvent(w, properties)
  \/ \E w \in Handles : InspectClick(w)
  \/ \E id \in ReqIds, url \in NetUrls :
       \E conv \in Conversions(url) : BeforeRequest(id, url, conv)
  \/ \E id \in ReqIds, requestHeaders \in RequestHeaders : BeforeSendHeaders(id, requestHeaders)
  \/ \E id \in ReqIds : HeadersReceived(id)
  \/ \E id \in ReqIds : Completed(id)
  \/ \E id \in ReqIds : ErrorOccurred(id)

Spec == Init /\ [][Next]_vars

\* a renderer crash on a window that has no registry entry (its entry was removed
\* while the native window is still alive), for the first time
CrashUnregistered(w) ==
  /\ \A i \in 1..Len(winPool) : winPool[i].window # w
  /\ crashAt[w] = -1
  /\ Crash(w)

InitLinux == Init /\ platform = "linux"

\* the registry's life cycle: creation, closing, handshakes and their timers
NextLife ==
  \/ CreateMainWindow
  \/ CreateBrowserWindow
  \/ \E id \in Idents, throws \in BOOLEAN : CloseWindow(id, throws)
  \/ \E throws \in BOOLEAN : CloseAllWindows(throws)
  \/ \E w \in Handles : UserClose(w)
  \/ \E w \in Handles : Closed(w)
  \/ \E i \in 1..MaxShakes : TimerElapsed(i)
  \/ Ack
  \/ \E w \in Handles : CrashUnregistered(w)

SpecLife == InitLinux /\ [][NextLife]_vars

\* crash recovery over long periods
NextCrash ==
  \/ CreateMainWindow
  \/ CreateBrowserWindow
  \/ \E n \in Names : CloseWindow(ByName(n), FALSE)
  \/ Ack
  \/ \E w \in Handles : Crash(w)
  \/ Wait

SpecCrash == InitLinux /\ [][NextCrash]_vars

\* the safe-close handshake of the browser window
NextShake ==
  \/ CreateBrowserWindow
  \/ \E id \in Idents : CloseWindow(id, FALSE)
  \/ \E w \in Handles : UserClose(w)
  \/ \E i \in 1..MaxShakes : TimerFire(i)
  \/ Ack
  \/ TickTimer

SpecShake == InitLinux /\ [][NextShake]_vars

\* showing and hiding, on every platform
NextShow ==
  \/ CreateMainWindow
  \/ CreateBrowserWindow
  \/ \E w \in Handles : ReadyToShow(w)
  \/ \E id \in Idents : ShowWindow(id)
  \/ \E id \in Idents : HideWindow(id)
  \/ ToggleAllWindows
  \/ \E w \in Handles : Immediate(w)
  \/ CloseWindow(ByName(BROWSER), FALSE)
  \/ \E w \in Handles : CrashUnregistered(w)
  \/ Ack

SpecShow == Init /\ [][NextShow]_vars

\* the navigation guard of the main and the browser window
NextNav ==
  \/ CreateMainWindow
  \/ CreateBrowserWindow
  \/ \E w \in Handles, url \in Urls : OpenWindow(w, url)
  \/ \E w \in Handles, url \in Urls : WillNavigate(w, url)
  \/ \E w \in Handles : DidFinishLoad(w)
  \/ \E t \in host.navTimers : NavTimer(t)
  \/ \E w \in Handles : UserClose(w)
  \/ Ack

SpecNav == InitLinux /\ [][NextNav]_vars

\* the guard's decisions alone: requests arriving while no window closes
NextGuard ==
  \/ CreateMainWindow
  \/ \E w \in Handles, url \in Urls : OpenWindow(w, url)
  \/ \E w \in Handles, url \in Urls : WillNavigate(w, url)
  \/ \E w \in Handles : DidFinishLoad(w)
  \/ \E t \in host.navTimers : NavTimer(t)

SpecGuard == InitLinux /\ [][NextGuard]_vars

\* the single-window operations, by name and by handle
NextLookup ==
  \/ CreateMainWindow
  \/ CreateBrowserWindow
  \/ \E w \in Handles : ReadyToShow(w)
  \/ \E n \in Names : CloseWindow(ByName(n), FALSE)
  \/ \E w \in Handles : Closed(w)
  \/ Ack
  \/ \E call \in SingleCalls, n \in Names : MissCall(call, n)

SpecLookup == InitLinux /\ [][NextLookup]_vars

\* windows closing while the application is or is not quitting
NextQuit ==
  \/ CreateMainWindow
  \/ CreateBrowserWindow
  \/ \E n \in Names : CloseWindow(ByName(n), FALSE)
  \/ \E w \in Handles : UserClose(w)
  \/ \E w \in Handles : Closed(w)
  \/ Ack
  \/ \E w \in Handles : CrashUnregistered(w)
  \/ BeforeQuit

SpecQuit == InitLinux /\ [][NextQuit]_vars

\* one window shown and hidden from every state the user can leave it in
NextVis ==
  \/ CreateMainWindow
  \/ \E w \in Handles : ReadyToShow(w)
  \/ \E id \in Idents : ShowWindow(id)
  \/ \E id \in Idents : HideWindow(id)
  \/ \E w \in Handles : Immediate(w)
  \/ \E w \in Handles : Blur(w)
  \/ \E w \in Handles : UserMinimize(w)
  \/ \E w \in Handles : UserFullScreen(w)

SpecVis == Init /\ [][NextVis]_vars

\* the deferred step of the Linux activation, with windows closing meanwhile
NextDefer ==
  \/ CreateMainWindow
  \/ \E w \in Handles : ReadyToShow(w)
  \/ ShowWindow(ByName(MAIN))
  \/ \E w \in Handles : Immediate(w)
  \/ \E w \in Handles : Blur(w)
  \/ CloseWindow(ByName(MAIN), FALSE)
  \/ \E w \in Handles : Closed(w)

SpecDefer == InitLinux /\ [][NextDefer]_vars

\* what is attached to the windows the registry makes
NextAttach ==
  \/ CreateMainWindow
  \/ CreateBrowserWindow
  \/ \E n \in SnifferNames, debug \in BOOLEAN : CreateSnifferWindow(n, debug)
  \/ \E n \in Names \cup SnifferNames : CloseWindow(ByName(n), FALSE)
  \/ \E w \in Handles : Closed(w)
  \/ Ack

SpecAttach == InitLinux /\ [][NextAttach]_vars

\* right clicks on the main window
NextMenu ==
  \/ CreateMainWindow
  \/ \E w \in Handles, properties \in Props : ContextMenuEvent(w, properties)
  \/ \E w \in Handles : InspectClick(w)

SpecMenu == InitLinux /\ [][NextMenu]_vars

\* network requests of the session the windows share
NextHeaders ==
  \/ CreateMainWindow
  \/ \E id \in ReqIds, url \in NetUrls :
       \E conv \in Conversions(url) : BeforeRequest(id, url, conv)
  \/ \E id \in ReqIds, requestHeaders \in RequestHeaders : BeforeSendHeaders(id, requestHeaders)
  \/ \E id \in ReqIds : HeadersReceived(id)
  \/ \E id \in ReqIds : Completed(id)
  \/ \E id \in ReqIds : ErrorOccurred(id)

SpecHeaders == InitLinux /\ [][NextHeaders]_vars

(* ------------------------------------------------------------------ claims *)
Entries(p, n) == {i \in 1..Len(p) : p[i].name = n}
EntriesOf(p, w) == {i \in 1..Len(p) : p[i].window = w}
Registered(p) == {p[i].window : i \in 1..Len(p)}

\* C1: a create call for a name N that follows an earlier create of N, with no
\* close call and no window closing in between, returns the handle the earlier
\* call returned, constructs no native window, and leaves exactly one entry for N
C1_IdempotentCreate ==
  (lastCall.op = "create" /\ lastCall.prev # NoWin) =>
     /\ lastCall.ret = lastCall.prev
     /\ ~lastCall.built
     /\ Cardinality(Entries(winPool, lastCall.name)) = 1
     /\ getWindow(winPool, ByName(lastCall.name)) = lastCall.ret
     /\ IsLive(wins, lastCall.ret)

C1_Witness ==
  /\ lastCall.op = "create" /\ lastCall.name = BROWSER /\ lastCall.prev # NoWin
  /\ getAllNames(winPool) = <<BROWSER>>

\* C2: right after closeWindow on a window registered under a name N, given by
\* name or by handle, the registry has no entry for N and getWindow(N) is null
C2_CloseRemovesEntry ==
  (lastCall.op = "close" /\ lastCall.name # NullKey) =>
     /\ Entries(winPool, lastCall.name) = {}
     /\ getWindow(winPool, ByName(lastCall.name)) = NoWin

C2_Witness ==
  /\ lastCall.op = "close" /\ lastCall.name = BROWSER /\ ~lastCall.byName
  /\ IsLive(wins, lastCall.win)

\* C3: the second of two crashes of a registered window that are at most 60000 ms
\* apart terminates the application, once, and does not reload
C3_CrashLoopTerminates ==
  (/\ lastCall.op = "crash" /\ lastCall.name # NullKey
   /\ lastCall.prevAt # -1 /\ now - lastCall.prevAt <= CrashWindow) =>
     /\ lastCall.outcome = "exit"
     /\ exitCalls = 1

\* C4: after a crash of a registered window its lastCrashTime is the time of
\* that crash
C4_LastCrashTimeIsNow ==
  (lastCall.op = "crash" /\ lastCall.name # NullKey) =>
     /\ PoolHas(winPool, lastCall.name)
     /\ winPool[PoolIndex(winPool, lastCall.name)].lastCrashTime = now

\* C5: a crash of a registered window more than 60000 ms after its previous crash
\* (after time 0 for its first) reloads, does not terminate the application, and
\* leaves the window registered under the same name with the same handle
C5_IsolatedCrashReloads ==
  (/\ lastCall.op = "crash" /\ lastCall.name # NullKey
   /\ now - (IF lastCall.prevAt = -1 THEN 0 ELSE lastCall.prevAt) > CrashWindow) =>
     /\ lastCall.outcome = "reload"
     /\ exitCalls = 0
     /\ getWindow(winPool, ByName(lastCall.name)) = lastCall.win
     /\ Cardinality(EntriesOf(winPool, lastCall.win)) = 1
     /\ IsLive(wins, lastCall.win)

C5_Witness ==
  /\ lastCall.op = "crash" /\ lastCall.name = MAIN
  /\ lastCall.prevAt # -1 /\ now - lastCall.prevAt > CrashWindow
  /\ lastCall.outcome = "reload"

\* C6: a window whose handshake has started is destroyed once, and never later
\* than 800 ms after the close request: while it lives a timer due by then is
\* pending, and with no acknowledgment it is the timer that destroys it, at 800 ms
C6_DestroyedOnceInTime ==
  /\ \A w \in Handles :
       /\ destroys[w] <= 1
       /\ ~destroyedLate[w]
       /\ (IsDestroyed(wins, w) /\ wins[w].name = BROWSER) => destroys[w] = 1
       /\ closeReqAt[w] # -1 =>
            /\ IsLive(wins, w)
            /\ now - closeReqAt[w] <= CloseTimeout
            /\ \E i \in 1..Len(shakes) :
                 /\ shakes[i].win = w /\ shakes[i].timer
                 /\ shakes[i].deadline = closeReqAt[w] + CloseTimeout
  /\ (lastCall.op = "timer" /\ lastCall.wasLive) =>
       /\ IsDestroyed(wins, lastCall.win)
       /\ lastCall.delay = CloseTimeout

C6_Witness ==
  /\ lastCall.op = "timer" /\ lastCall.wasLive /\ lastCall.delay = CloseTimeout
  /\ destroys[lastCall.win] = 1

\* C7: whichever of acknowledgment and timer comes first ends the handshake for
\* good: no handshake is left with a timer but no listener or a listener but no
\* timer; an acknowledgment destroys every window it was awaited for and leaves
\* no timer behind; with no listener left it changes nothing; a timer that fires
\* is one whose acknowledgment had not come
C7_AckCancelsTimer ==
  /\ \A i \in 1..Len(shakes) : shakes[i].timer <=> shakes[i].listener
  /\ lastCall.op = "ack" =>
       /\ \A w \in lastCall.wins : IsDestroyed(wins, w)
       /\ shakes = <<>>
       /\ lastCall.wins = {} => ~lastCall.changed
  /\ lastCall.op = "timer" => lastCall.listening /\ IsDestroyed(wins, lastCall.win)

C7_Witness ==
  /\ lastCall.op = "ack"
  /\ lastCall.left = {CloseTimeout - SmallStep}
  /\ lastCall.changed

\* C8: every live native window has exactly one registry entry, and no two
\* entries reference the same window
C8_RegistryInvariant ==
  /\ \A w \in Handles : IsLive(wins, w) => Cardinality(EntriesOf(winPool, w)) = 1
  /\ \A i, j \in 1..Len(winPool) : winPool[i].window = winPool[j].window => i = j

\* C9: for each name at most one live native window was created under it
C9_NoDuplicatePerName ==
  \A n \in Names : Cardinality({w \in Handles : IsLive(wins, w) /\ wins[w].name = n}) <= 1

\* C10: after toggleAllWindows the live registered windows are all hidden if one
\* of them was visible before the call, and all shown if none was
C10_ToggleAllUniform ==
  lastCall.op = "toggleAll" =>
    \A w \in Registered(winPool) :
      IsLive(wins, w) => (IsVisible(wins, w) <=> ~lastCall.anyVisible)

MatchesProvider(url) == \E link \in oauthProviderUrls : Includes(url, link)
ConstructedNow == {h \in Handles : Constructed(wins, h)}

\* C11: an open-window request whose URL contains 'http://file/' is denied, hands
\* one path to the open-file facility, constructs no window and starts no
\* navigation of the browser window
C11_FileUrlOpensNoWindow ==
  (lastCall.op = "open" /\ Includes(lastCall.url, FileMarker)) =>
     /\ lastCall.decision.action = "deny"
     /\ Len(host.openPaths) = Len(lastCall.before.paths) + 1
     /\ ConstructedNow = lastCall.before.wins
     /\ host.sends = lastCall.before.sends
     /\ host.loads = lastCall.before.loads

\* C12: an open-window request whose URL contains a name of the provider list is
\* allowed with the partition forced to 'persist:webview'; it constructs no
\* window, sends the browser window nothing and schedules nothing
C12_ProviderAllowedIsolated ==
  (lastCall.op = "open" /\ MatchesProvider(lastCall.url)) =>
     /\ lastCall.decision = Allow
     /\ lastCall.decision.partition = "persist:webview"
     /\ ConstructedNow = lastCall.before.wins
     /\ host.sends = lastCall.before.sends
     /\ host.loads = lastCall.before.loads
     /\ host.openPaths = lastCall.before.paths

C12_Witness ==
  /\ lastCall.op = "open" /\ lastCall.url = <<"https://", "github.com", "/login">>
  /\ lastCall.decision.action = "allow"
  /\ lastCall.reused # NoWin

\* C13: an open-window request for any other URL is denied and leads to one
\* navigate message with that URL to the browser window: sent at once to the
\* registered live browser window, or else a browser window is constructed and
\* the message is owed to it until its load has finished and the timer has run
\* out, and then it is sent
C13_OtherUrlDispatchedOnce ==
  /\ (lastCall.op = "open" /\ ~MatchesProvider(lastCall.url)
        /\ ~Includes(lastCall.url, FileMarker)) =>
       /\ lastCall.decision.action = "deny"
       /\ lastCall.reused # NoWin =>
            /\ host.sends = Append(lastCall.before.sends,
                                   [win |-> lastCall.reused, url |-> lastCall.url])
            /\ host.loads = lastCall.before.loads
            /\ ConstructedNow = lastCall.before.wins
       /\ lastCall.reused = NoWin =>
            /\ host.sends = lastCall.before.sends
            /\ \E w \in ConstructedNow \ lastCall.before.wins :
                 /\ ConstructedNow = lastCall.before.wins \cup {w}
                 /\ wins[w].name = BROWSER /\ IsLive(wins, w)
                 /\ host.loads = lastCall.before.loads \cup {[win |-> w, url |-> lastCall.url]}
  /\ lastCall.op = "navTimer" =>
       /\ lastCall.sent
       /\ host.sends # <<>>
       /\ host.sends[Len(host.sends)] = [win |-> lastCall.win, url |-> lastCall.url]

\* C14 (as stated): the decision of every open-window request is deny
C14_AlwaysDenied ==
  lastCall.op = "open" => lastCall.decision.action = "deny"

\* C14 (amended): the decision of an open-window request is deny exactly when
\* its URL contains no name of the provider list
C14_DeniedUnlessProvider ==
  lastCall.op = "open" =>
    (lastCall.decision.action = "deny" <=> ~MatchesProvider(lastCall.url))

C14_Witness ==
  /\ lastCall.op = "open" /\ lastCall.url = <<"https://", "example.com", "/">>
  /\ lastCall.decision.action = "deny"
  /\ lastCall.reused = NoWin

\* C15: a top-level navigation goes ahead only when the target's origin is the
\* development server's; every other one is cancelled and its URL is handed to
\* the external browser once
C15_OnlyDevServerNavigates ==
  lastCall.op = "willNavigate" =>
     /\ ~lastCall.prevented <=> Origin(lastCall.url) = DevOrigin
     /\ lastCall.prevented => host.openExternals = Append(lastCall.before, lastCall.url)
     /\ ~lastCall.prevented => host.openExternals = lastCall.before

\* C16: getWindow, given a name or a handle, returns a live window or null
C16_GetWindowLiveOrNull ==
  \A id \in Idents :
    LET w == getWindow(winPool, id) IN w # NoWin => IsLive(wins, w)

\* C17: show, hide, toggle, reload and close called with a name the registry has
\* no entry for change nothing: no window, no registry entry, no message, no timer
C17_MissIsNoOp ==
  lastCall.op = "miss" => lastCall.same

C17_Witness ==
  /\ lastCall.op = "miss" /\ lastCall.call = "close" /\ lastCall.name = BROWSER
  /\ winPool # <<>>
  /\ \E w \in Handles : IsLive(wins, w) /\ wins[w].name = BROWSER

\* C18: no lifecycle operation calls a method of a destroyed window:
\* toggleAllWindows never asks a destroyed window whether it is visible
C18_NoCallOnDestroyed ==
  lastCall.op = "toggleAll" => lastCall.pre # "throw"

C20_CloseRaceForcesDestroy ==
  lastCall.op = "close" =>
    /\ lastCall.threw =>
         /\ IsDestroyed(wins, lastCall.win)
         /\ destroys[lastCall.win] = 1
    /\ (lastCall.win # NoWin /\ lastCall.name # NullKey) =>
         ~\E i \in 1..Len(winPool) : winPool[i].name = lastCall.name

C20_Witness ==
  /\ lastCall.op = "close" /\ lastCall.threw /\ lastCall.name = BROWSER
  /\ IsDestroyed(wins, lastCall.win)

\* position of the first call c in a log, 0 if it is not there
Pos(log, c) ==
  IF \E i \in 1..Len(log) : log[i] = c
  THEN CHOOSE i \in 1..Len(log) : log[i] = c /\ \A j \in 1..(i - 1) : log[j] # c
  ELSE 0

\* C21: showWindow on a live window leaves it not minimized and with its audio
\* on, and focused and visible (on Linux at the latest after the deferred step);
\* a window that was hidden in full screen is no longer in full screen
C21_ShowRestoresUnmutesFocuses ==
  [][(lastCall'.op = "show" /\ IsLive(wins, lastCall'.win)) =>
       LET w == lastCall'.win
       IN /\ ~wins'[w].minimized
          /\ ~wins'[w].muted
          /\ (wins[w].fullscreen /\ ~wins[w].visible) => ~wins'[w].fullscreen
          /\ (IsVisible(wins', w) /\ IsFocused(wins', w)) \/ w \in immediates']_vars

\* C26: hideWindow on a live window first silences it and then hides it in the
\* platform's way: Windows makes it transparent and then minimizes it, macOS hides
\* it and then the application, Linux hides it
C26_HideMutesThenHides ==
  [][(lastCall'.op = "hide" /\ IsLive(wins, lastCall'.win)) =>
       LET w == lastCall'.win
       IN /\ wins'[w].muted
          /\ platform = "win32" =>
               /\ lastCall'.log = <<"setAudioMuted(true)", "setOpacity(0)", "minimize">>
               /\ ~wins'[w].opaque /\ wins'[w].minimized
          /\ platform = "darwin" =>
               /\ lastCall'.log = <<"setAudioMuted(true)", "hide", "app.hide">>
               /\ ~wins'[w].visible /\ appHidden'
          /\ platform = "linux" =>
               /\ lastCall'.log = <<"setAudioMuted(true)", "hide">>
               /\ ~wins'[w].visible]_vars

C26_Witness ==
  /\ lastCall.op = "hide" /\ platform = "win32"
  /\ lastCall.log # <<>>
  /\ wins[lastCall.win].minimized /\ ~wins[lastCall.win].opaque /\ wins[lastCall.win].muted

\* C27: on Linux showWindow on a visible window without focus hides it and
\* leaves the rest to one deferred step; that step shows and focuses the window
\* if it still lives and leaves a destroyed one alone; on Linux no call of
\* showWindow sets the all-workspaces flag either way
C27_LinuxHideThenDeferredShow ==
  [][platform = "linux" =>
       /\ (/\ lastCall'.op = "show" /\ IsLive(wins, lastCall'.win)
           /\ IsVisible(wins, lastCall'.win) /\ ~IsFocused(wins, lastCall'.win)) =>
             /\ lastCall'.log = <<"hide", "setImmediate">>
             /\ ~IsVisible(wins', lastCall'.win)
             /\ lastCall'.win \in immediates'
       /\ lastCall'.op = "immediate" =>
             /\ lastCall'.win \notin immediates'
             /\ IF IsLive(wins, lastCall'.win)
                THEN IsVisible(wins', lastCall'.win) /\ IsFocused(wins', lastCall'.win)
                ELSE wins' = wins
       /\ lastCall'.op = "show" =>
             /\ Pos(lastCall'.log, "setVisibleOnAllWorkspaces(true)") = 0
             /\ Pos(lastCall'.log, "setVisibleOnAllWorkspaces(false)") = 0
       /\ \A w \in Handles : ~wins'[w].allWorkspaces]_vars

C27_Witness ==
  /\ platform = "linux"
  /\ lastCall.op = "immediate" /\ IsDestroyed(wins, lastCall.win)

\* C28: on Windows and macOS showWindow on a live window turns the all-workspaces
\* flag on before it shows the window and off after it has focused it, and no
\* window is left with the flag on
C28_AllWorkspacesOnlyDuringShow ==
  [][/\ (lastCall'.op = "show" /\ IsLive(wins, lastCall'.win) /\ platform # "linux") =>
          LET log == lastCall'.log
          IN /\ Pos(log, "setVisibleOnAllWorkspaces(true)") > 0
             /\ Pos(log, "setVisibleOnAllWorkspaces(true)") < Pos(log, "show")
             /\ Pos(log, "show") < Pos(log, "focus")
             /\ Pos(log, "focus") < Pos(log, "setVisibleOnAllWorkspaces(false)")
     /\ \A w \in Handles : ~wins'[w].allWorkspaces]_vars

C28_Witness ==
  /\ platform = "darwin"
  /\ lastCall.op = "show" /\ Len(lastCall.log) = 7
  /\ IsFocused(wins, lastCall.win)

\* C22: every handle getAllWindows returns is a live window
C22_GetAllWindowsLive ==
  \A i \in 1..Len(getAllWindows(winPool)) : IsLive(wins, getAllWindows(winPool)[i])

ShakesFor(sh, w) == Cardinality({i \in 1..Len(sh) : sh[i].win = w})

\* C24: closeAllWindows asks every live registered window to close (close() has
\* run on it: it is closing, or its handshake has started, or close() threw and
\* it was destroyed) and leaves the registry without a name
C24_CloseAllEmptiesRegistry ==
  [][lastCall'.op = "closeAll" =>
       /\ getAllNames(winPool') = <<>>
       /\ \A w \in Registered(winPool) :
            IsLive(wins, w) =>
              \/ IsDestroyed(wins', w)
              \/ wins'[w].closing
              \/ ShakesFor(shakes', w) > ShakesFor(shakes, w)]_vars

C24_Witness ==
  /\ lastCall.op = "closeAll" /\ winPool = <<>>
  /\ \E w \in Handles : IsLive(wins, w) /\ wins[w].closing
  /\ \E i \in 1..Len(shakes) : IsLive(wins, shakes[i].win) /\ shakes[i].listener

\* C25: the name getWindowName gives for the window of a registry entry is the
\* key of that entry, and for a window no entry holds it gives null
C25_NameOfWindowIsItsKey ==
  /\ \A i \in 1..Len(winPool) : getWindowName(winPool, winPool[i].window) = winPool[i].name
  /\ \A w \in Handles : w \notin Registered(winPool) => getWindowName(winPool, w) = NullKey

C25_Witness ==
  /\ Len(winPool) = 2
  /\ winPool[1].name = BROWSER /\ IsLive(wins, winPool[1].window)
  /\ getWindowName(winPool, winPool[2].window) = MAIN /\ IsLive(wins, winPool[2].window)

\* C23 (as stated): every live window has the context menu and the navigation
\* guard on its content surface
C23_GuardAndMenuOnEveryWindow ==
  \A w \in Handles :
    IsLive(wins, w) => wins[w].ctxHandlers > 0 /\ wins[w].navHandlers > 0

\* C23 (amended): every live window has the context menu on its content surface;
\* the main and the browser window have the navigation guard, a sniffer window
\* has none
C23_MenuEverywhereGuardOnMainAndBrowser ==
  \A w \in Handles :
    IsLive(wins, w) =>
      /\ wins[w].ctxHandlers > 0
      /\ wins[w].name \in {MAIN, BROWSER} => wins[w].navHandlers > 0
      /\ wins[w].name \in SnifferNames => wins[w].navHandlers = 0

C23_Witness ==
  /\ lastCall.op = "create" /\ lastCall.name \in SnifferNames /\ lastCall.built
  /\ IsLive(wins, lastCall.ret) /\ wins[lastCall.ret].ctxHandlers > 0
  /\ \E w \in Handles : IsLive(wins, w) /\ wins[w].name = BROWSER /\ wins[w].navHandlers > 0

\* C29 (as stated): Copy and Cut are enabled only with a non-empty selection and
\* their edit flag; Paste is enabled whenever the region is editable
C29_PasteEnabledWhenEditable ==
  lastCall.op = "contextMenu" =>
    LET p == lastCall.props
        copy == lastCall.edit[1]
        paste == lastCall.edit[2]
        cut == lastCall.edit[3]
    IN /\ copy.enabled => (p.selectionText # <<>> /\ p.editFlags.canCopy)
       /\ cut.enabled => (p.selectionText # <<>> /\ p.editFlags.canCut)
       /\ p.isEditable => paste.enabled

\* C29 (amended): Copy and Cut are enabled exactly when the selection without the
\* white space around it is non-empty and their edit flag is set; Paste is
\* enabled exactly when its edit flag is set, whatever the selection, and is
\* shown exactly when the region is editable
C29_EnabledByFlagsAndSelection ==
  lastCall.op = "contextMenu" =>
    LET p == lastCall.props
        copy == lastCall.edit[1]
        paste == lastCall.edit[2]
        cut == lastCall.edit[3]
        hasText == Trim(p.selectionText) # <<>>
    IN /\ copy.id = "copy" /\ paste.id = "paste" /\ cut.id = "cut"
       /\ copy.enabled <=> (hasText /\ p.editFlags.canCopy)
       /\ cut.enabled <=> (hasText /\ p.editFlags.canCut)
       /\ paste.enabled <=> p.editFlags.canPaste
       /\ paste.visible <=> p.isEditable

C29_Witness ==
  /\ lastCall.op = "contextMenu"
  /\ lastCall.props.isEditable /\ ~lastCall.props.editFlags.canPaste
  /\ lastCall.props.selectionText = <<" ">> /\ lastCall.props.editFlags.canCopy
  /\ ~lastCall.edit[1].enabled /\ ~lastCall.edit[2].enabled

C33_ClosedRemovesOwnEntryOnly ==
  [][ lastCall'.op = "closed" =>
        \A i \in 1..Len(winPool) :
          winPool[i].window # lastCall'.win =>
            \E j \in 1..Len(winPool') : winPool'[j] = winPool[i] ]_vars

\* C34: every key of the registry is a window name passed to createWindow
C34_KeysAreCreatedNames ==
  \A i \in 1..Len(winPool) : winPool[i].name \in Names \cup SnifferNames

\* C39: a content surface never carries more than one context-menu listener
C39_OneMenuHandlerPerSurface ==
  \A w \in Handles : IsLive(wins, w) => wins[w].ctxHandlers <= 1

\* C40: close requests that overlap destroy the window at most once, and when no
\* 800 ms timer is pending any more no acknowledgment listener is registered
C40_OverlappingClosesSafe ==
  /\ \A w \in Handles : destroys[w] <= 1 /\ (destroys[w] = 1 => IsDestroyed(wins, w))
  /\ (\A i \in 1..Len(shakes) : ~shakes[i].timer) =>
       (\A i \in 1..Len(shakes) : ~shakes[i].listener)

\* two handshakes ran on one window: the timer of the second fires after the
\* first has destroyed the window, and nothing is left
C40_Witness ==
  /\ lastCall.op = "timer" /\ ~lastCall.wasLive /\ lastCall.listening
  /\ destroys[lastCall.win] = 1
  /\ shakes = <<>>

\* C37: the settling timer never throws: a message is sent only to a window that
\* is alive, and for a window destroyed in the meantime the callback does nothing
C37_NoDispatchToDestroyedWindow ==
  lastCall.op = "navTimer" =>
    /\ ~lastCall.threw
    /\ lastCall.sent => IsLive(wins, lastCall.win)

\* C38: no navigate message is sent to the browser window while its first load
\* is awaited, and the message of the request that created the window is the
\* first one that window receives
C38_DispatchInOrderAfterLoad ==
  /\ (lastCall.op = "open" /\ lastCall.reused # NoWin
        /\ host.sends # lastCall.before.sends) =>
       \A l \in lastCall.before.loads : l.win # lastCall.reused
  /\ (lastCall.op = "navTimer" /\ lastCall.sent) =>
       \A i \in 1..(Len(host.sends) - 1) : host.sends[i].win # lastCall.win

\* C35: createWindow for a name whose window was just hidden by hideWindow
\* leaves that window visible, focused and with its audio on, and on Windows
\* opaque and not minimized
C35_CreateAfterHideShowsFully ==
  [][(/\ lastCall.op = "hide" /\ IsLive(wins, lastCall.win)
      /\ lastCall'.op = "create" /\ ~lastCall'.built /\ lastCall'.ret = lastCall.win) =>
       LET w == lastCall'.ret
       IN /\ IsVisible(wins', w) /\ IsFocused(wins', w)
          /\ ~wins'[w].muted
          /\ platform = "win32" => (wins'[w].opaque /\ ~wins'[w].minimized)]_vars

\* C36: on Linux the deferred step of an earlier showWindow that runs after
\* hideWindow leaves the window hidden and silent
C36_LinuxHideIsFinal ==
  [][(/\ platform = "linux"
      /\ lastCall.op = "hide" /\ IsLive(wins, lastCall.win)
      /\ lastCall'.op = "immediate" /\ lastCall'.win = lastCall.win) =>
       /\ ~IsVisible(wins', lastCall.win)
       /\ wins'[lastCall.win].muted]_vars

\* C32: the map holds no entry for a request that is over, however it ended
C32_NoEntryAfterRequest ==
  \A id \in ReqIds : Finished(host.net, id) => ~MapHas(host.reqMap, id)

====
